---- MODULE Spec2Model ----
(***************************************************************************)
(* tindeq-overtones: a Progressor (wireless strain gauge) telemetry        *)
(* session feeding a shared weight cell that a real-time audio callback    *)
(* reads to synthesise a sine tone in the overtone series of A110.         *)
(*                                                                         *)
(* Representation of the machine types:                                    *)
(*   u8   a number in 0..255                                               *)
(*   f32  its IEEE-754 fields [sign, exp, mant] (1, 8 and 23 bits)         *)
(*   u32  two 16-bit limbs [hi, lo], the value being hi * 2^16 + lo        *)
(*        (the value itself exceeds the integers of TLC)                   *)
(*   a phase (f32, radians) is kept as its angle on the circle: the        *)
(*   phase modulo one full cycle, in units of 2*pi/sample_rate, a number   *)
(*   in 0..sample_rate-1. Phases of the code that differ by whole cycles,  *)
(*   or by the roundings of f32, are the same angle: 927.817 rad at rate 3 *)
(*   is angle 2, and both 0.0 and 6.283179 rad are angle 0. A sample value *)
(*   sin(phase) is the class of angles with that sine.                     *)
(* The f32 values considered are finite with magnitude below 2^24; the     *)
(* result of an f32 operation on integers is rounded to a 24-bit           *)
(* significand (round_f32). The phase of the code is not a whole number    *)
(* of units: the roundings of one sample put it off the angle kept here    *)
(* by less than two thousandths of a unit for the sample rates modelled    *)
(* and frequencies of magnitude at most MaxFreq, and every capture of a    *)
(* phase offset carries the roundings made so far into the next phases,    *)
(* where they add up. The angle kept is the unit nearest to the phase of   *)
(* the code, within a hundredth of a unit, as long as at most MaxCaptures  *)
(* offsets were captured (f32_phase); for higher frequencies or longer     *)
(* runs the roundings are not negligible and the model has no phase.       *)
(***************************************************************************)
EXTENDS Integers, Sequences, FiniteSets

VARIABLES
    \* pure-function harness (SpecPure)
    input,          \* a notification buffer handed to parse_response
    decoded,        \* what parse_response returned for it
    mapped,         \* <<weight_to_freq(value)>> once computed, else <<>>
    \* main.rs: main
    running,        \* Arc<Mutex<bool>> running
    stop_pc,        \* the spawned stop-on-input task
    \* the shared weight cell
    cur_weight,     \* Arc<Mutex<f32>> cur_weight: the f32 held
    weight_lock,    \* who holds the cell's mutex: "free", "session", "audio"
    \* progressor.rs: interaction
    pc,             \* position of main / the telemetry session
    x,              \* the notification the receive loop is processing
    notifs,         \* notifications received so far
    ops,            \* the wireless operations issued so far, in order
    \* audio.rs: create_stream / write_data
    osc,            \* the closure's sample_rate, sample_clock, phase,
                    \* phase_offset and prev_freq, with the number of
                    \* phase offsets it has captured (history)
    apc,            \* position of the audio callback
    channels,       \* config.channels
    remaining,      \* samples of the output buffer still to fill
    frame,          \* samples written so far into the current chunk
    variant,        \* which create_stream runs: "audio_rs" or "main_rs"
    \* history
    stale_notifs,   \* notifications received while running was already false
    stop_awaiting,  \* running was cleared while the loop awaited a notification
    last_frame,     \* the notification whose store completed last (<<>>: none)
    lookup_failed,  \* the service or a characteristic was not found
    ended_upstream  \* the notification stream ended while running was true

pureVars == <<input, decoded, mapped>>
mainVars == <<running, stop_pc>>
cellVars == <<cur_weight, weight_lock>>
sessVars == <<pc, x, notifs, ops>>
audioVars == <<osc, apc, channels, remaining, frame, variant>>
histVars == <<stale_notifs, stop_awaiting, last_frame, lookup_failed, ended_upstream>>
vars == <<pureVars, mainVars, cellVars, sessVars, audioVars, histVars>>

----------------------------------------------------------------------------
\* Bounds

\* config.sample_rate of the output device (44100 or 48000 on real hardware)
SampleRate == 3
\* largest config.channels considered
MaxChannels == 2
\* largest number of frames the backend asks for in one callback
MaxFrames == 1
\* notifications the device delivers before its stream ends
MaxNotifs == 3
\* bytes following offset 10 in the buffers of the pure-function harness
MaxTrailing == 1

----------------------------------------------------------------------------
\* Program constants

START_WEIGHT_MEASUREMENT == 101
END_WEIGHT_MEASUREMENT == 102
BASE_FREQ == 110

----------------------------------------------------------------------------
\* Machine arithmetic

RECURSIVE Pow2(_)
Pow2(n) == IF n = 0 THEN 1 ELSE 2 * Pow2(n - 1)

\* i[a..b] of a Vec<u8> whose length is at least b
Slice(i, a, b) == SubSeq(i, a + 1, b)

\* f32::from_le_bytes(b): b[4] carries the sign and the high exponent bits
f32_from_le_bytes(b) ==
    [sign |-> b[4] \div 128,
     exp  |-> (b[4] % 128) * 2 + (b[3] \div 128),
     mant |-> (b[3] % 128) * 65536 + b[2] * 256 + b[1]]

\* u32::from_le_bytes(b)
u32_from_le_bytes(b) ==
    [hi |-> b[4] * 256 + b[3], lo |-> b[2] * 256 + b[1]]

\* the mathematical floor in place of the truncation
trunc_floor(w) ==
    IF w.exp < 127
    THEN IF w.sign = 1 /\ (w.exp # 0 \/ w.mant # 0) THEN -1 ELSE 0
    ELSE LET M == 8388608 + w.mant
             whole == w.exp >= 150 \/ M % Pow2(150 - w.exp) = 0
             t == IF w.exp >= 150 THEN M * Pow2(w.exp - 150)
                                  ELSE M \div Pow2(150 - w.exp)
         IN  IF w.sign = 1 THEN (IF whole THEN -t ELSE -t - 1) ELSE t

\* f32::trunc, as an integer: the integer part, rounded toward zero. A value
\* below 1 in magnitude (exp < 127) truncates to zero; otherwise the 24-bit
\* significand M is shifted by the unbiased exponent.
trunc(w) ==
    IF w.exp < 127 THEN 0
    ELSE LET M == 8388608 + w.mant
             t == IF w.exp >= 150 THEN M * Pow2(w.exp - 150)
                                  ELSE M \div Pow2(150 - w.exp)
         IN  IF w.sign = 1 THEN -t ELSE t

\* the least power of two, from q on, with a < 2^24 * q: the spacing of the
\* f32 values around a
RECURSIVE Ulp(_, _)
Ulp(a, q) == IF a \div q < 16777216 THEN q ELSE Ulp(a, 2 * q)

\* the f32 nearest to the integer m (magnitude below 2^31), ties to the even
\* significand; an integer of at most 24 bits is an f32
Nearest(m) ==
    IF -16777216 <= m /\ m <= 16777216 THEN m
    ELSE LET a == IF m < 0 THEN -m ELSE m
             q == Ulp(a, 1)
             lo == (a \div q) * q
             r == a - lo
             up == 2 * r > q \/ (2 * r = q /\ (a \div q) % 2 = 1)
             v == IF up THEN lo + q ELSE lo
         IN  IF m < 0 THEN -v ELSE v

\* the rounding of every f32 operation, its exact result n computed once
round_f32(n) == CHOOSE v \in {Nearest(m) : m \in {n}} : TRUE

----------------------------------------------------------------------------
\* Frame Codec: parse_response

None == [tag |-> "None"]
Panicked == [tag |-> "panic"]
Unset == [tag |-> "unset"]
LowPowerWarning == [tag |-> "LowPowerWarning"]
SampleBatteryVoltage(raw) == [tag |-> "SampleBatteryVoltage", raw |-> raw]
WeightMeasurement(value, counter) ==
    [tag |-> "WeightMeasurement", value |-> value, counter |-> counter]

\* the same reading the fields big-endian
parse_response_be(i) ==
    LET rev(b) == <<b[4], b[3], b[2], b[1]>> IN
    IF Len(i) = 0 THEN None
    ELSE CASE i[1] = 0 ->
                IF Len(i) < 6 THEN Panicked
                ELSE SampleBatteryVoltage(u32_from_le_bytes(rev(Slice(i, 2, 6))))
           [] i[1] = 1 ->
                IF Len(i) < 10 THEN Panicked
                ELSE WeightMeasurement(f32_from_le_bytes(rev(Slice(i, 2, 6))),
                                       u32_from_le_bytes(rev(Slice(i, 6, 10))))
           [] i[1] = 4 -> LowPowerWarning
           [] OTHER -> None

\* i.get(0)? gives None on an empty buffer; i[2..6] and i[6..10] index the
\* vector and panic when it is shorter than the range's end; the try_into of
\* a 4-byte slice into [u8; 4] cannot fail.
parse_response(i) ==
    IF Len(i) = 0 THEN None
    ELSE CASE i[1] = 0 ->
                IF Len(i) < 6 THEN Panicked
                ELSE SampleBatteryVoltage(u32_from_le_bytes(Slice(i, 2, 6)))
           [] i[1] = 1 ->
                IF Len(i) < 10 THEN Panicked
                ELSE WeightMeasurement(f32_from_le_bytes(Slice(i, 2, 6)),
                                       u32_from_le_bytes(Slice(i, 6, 10)))
           [] i[1] = 4 -> LowPowerWarning
           [] OTHER -> None

----------------------------------------------------------------------------
\* Frequency Mapper

weight_to_freq_floor(weight) ==
    round_f32(BASE_FREQ * round_f32(trunc_floor(weight) + 1))

\* 110.0 * (weight.trunc() + 1.0): the sum and the product are f32
weight_to_freq(weight) == round_f32(BASE_FREQ * round_f32(trunc(weight) + 1))

----------------------------------------------------------------------------
\* Pure-function harness: one buffer is decoded, and a decoded weight mapped

F32(sign, exp, mant) == [sign |-> sign, exp |-> exp, mant |-> mant]
F_0 == F32(0, 0, 0)                  \*  0.0    00 00 00 00
F_neg_0 == F32(1, 0, 0)              \* -0.0    00 00 00 80
F_0_999 == F32(0, 126, 8371831)      \*  0.999  77 BE 7F 3F
F_1 == F32(0, 127, 0)                \*  1.0    00 00 80 3F
F_1_2 == F32(0, 127, 1677722)        \*  1.2    9A 99 99 3F
F_2_5 == F32(0, 128, 2097152)        \*  2.5    00 00 20 40
F_3_9 == F32(0, 128, 7969178)        \*  3.9    9A 99 79 40
F_100_5 == F32(0, 133, 4784128)      \*  100.5  00 00 C9 42
F_neg_0_5 == F32(1, 126, 0)          \* -0.5    00 00 00 BF
F_neg_1_5 == F32(1, 127, 4194304)    \* -1.5    00 00 C0 BF
F_neg_2_5 == F32(1, 128, 2097152)    \* -2.5    00 00 20 C0
\* weights whose overtone needs more than 24 bits
F_305040 == F32(0, 145, 1372672)     \*  305040.0    00 F2 94 48
F_9761289 == F32(0, 150, 1372681)    \*  9761289.0   09 F2 14 4B
F_9761290 == F32(0, 150, 1372682)    \*  9761290.0   0A F2 14 4B
F_16777214 == F32(0, 150, 8388606)   \*  16777214.0  FE FF 7F 4B
FloatDomain ==
    {F_0, F_neg_0, F_0_999, F_1, F_1_2, F_2_5, F_3_9, F_100_5,
     F_neg_0_5, F_neg_1_5, F_neg_2_5,
     F_305040, F_9761289, F_9761290, F_16777214}

U32(hi, lo) == [hi |-> hi, lo |-> lo]
CounterDomain == {U32(0, 0), U32(0, 1), U32(258, 772), U32(32768, 0), U32(65535, 65535)}

\* f32::to_le_bytes and u32::to_le_bytes, the encoder of the round trip
f32_to_le_bytes(f) ==
    <<f.mant % 256, (f.mant \div 256) % 256,
      (f.exp % 2) * 128 + (f.mant \div 65536), f.sign * 128 + (f.exp \div 2)>>
u32_to_le_bytes(n) ==
    <<n.lo % 256, n.lo \div 256, n.hi % 256, n.hi \div 256>>
EncodeFrame(opcode, reserved, value, counter) ==
    <<opcode, reserved>> \o f32_to_le_bytes(value) \o u32_to_le_bytes(counter)

Opcodes == {0, 1, 4, 2, 255}
ReservedBytes == {0, 7}
PureInputs ==
    {SubSeq(EncodeFrame(o, r, v, c) \o [k \in 1..MaxTrailing |-> 9], 1, n) :
        o \in Opcodes, r \in ReservedBytes, v \in FloatDomain,
        c \in CounterDomain, n \in 0..(10 + MaxTrailing)}

Decode ==
    /\ decoded = Unset
    /\ decoded' = parse_response(input)
    /\ UNCHANGED <<input, mapped, mainVars, cellVars, sessVars, audioVars, histVars>>

MapFreq ==
    /\ decoded.tag = "WeightMeasurement"
    /\ mapped = <<>>
    /\ mapped' = <<weight_to_freq(decoded.value)>>
    /\ UNCHANGED <<input, decoded, mainVars, cellVars, sessVars, audioVars, histVars>>

----------------------------------------------------------------------------
\* The notifications the device may deliver during a session

WeightFrame(v) == EncodeFrame(1, 0, v, U32(0, 1))
NotifBuffers ==
    {WeightFrame(F_0), WeightFrame(F_1_2), WeightFrame(F_3_9),
     WeightFrame(F_neg_2_5),    \* a slack reading, mapped to -110
     <<0, 0, 16, 14, 0, 0>>,    \* battery voltage
     <<4>>,                     \* low-power warning
     <<2, 0>>,                  \* an opcode the codec does not know
     <<1, 0, 0>>}               \* a weight frame cut short

Op(op, data, ok) == [op |-> op, data |-> data, ok |-> ok]
Issued(op) == {k \in DOMAIN ops : ops[k].op = op}
Writes(opcode) == {k \in DOMAIN ops : ops[k].op = "write" /\ ops[k].data = <<opcode, 0>>}
Connected == \E k \in DOMAIN ops : ops[k].op = "connect" /\ ops[k].ok

\* main's body has been left (returned or panicked): the stream is dropped,
\* and the callback with it; the runtime's drop waits for the stop task,
\* which is blocked in read_line on a worker thread and still runs to its end
Exited == pc \in {"done", "error", "panic"}
\* stream.play() has been called and the stream not yet dropped
Playing == pc \notin {"mk_stream", "spawn", "play", "done", "error", "panic"}

----------------------------------------------------------------------------
\* main.rs: main

\* mk_stream: no output device, no default config or a sample format other
\* than f32 panics; build_output_stream may fail, which main returns
MkStream ==
    /\ pc = "mk_stream"
    /\ \E r \in {"spawn", "error", "panic"} : pc' = r
    /\ UNCHANGED <<pureVars, mainVars, cellVars, x, notifs, ops, audioVars, histVars>>

SpawnStop ==
    /\ pc = "spawn"
    /\ pc' = "play"
    /\ stop_pc' = "reading"
    /\ UNCHANGED <<pureVars, running, cellVars, x, notifs, ops, audioVars, histVars>>

Play ==
    /\ pc = "play"
    /\ \E r \in {"manager_new", "error"} : pc' = r
    /\ UNCHANGED <<pureVars, mainVars, cellVars, x, notifs, ops, audioVars, histVars>>

\* the same, toggling the flag on every line read
ReadLineToggle ==
    /\ stop_pc = "reading"
    /\ running' = ~running
    /\ stop_pc' = "reading"
    /\ stop_awaiting' = (stop_awaiting \/ pc = "next_notification")
    /\ UNCHANGED <<pureVars, cellVars, sessVars, audioVars, stale_notifs, last_frame, lookup_failed, ended_upstream>>

\* the stop task: read_line returns (or fails, and expect panics the task),
\* then running is locked and set to false; this happens whether or not
\* main's body is still running
ReadLine ==
    /\ stop_pc = "reading"
    /\ \E ok \in BOOLEAN :
         /\ stop_pc' = IF ok THEN "done" ELSE "panicked"
         /\ running' = IF ok THEN FALSE ELSE running
         /\ stop_awaiting' = (stop_awaiting \/ (ok /\ pc = "next_notification"))
    /\ UNCHANGED <<pureVars, cellVars, sessVars, audioVars, stale_notifs, last_frame, lookup_failed, ended_upstream>>

----------------------------------------------------------------------------
\* progressor.rs: interaction

\* one awaited wireless operation: logged, then Ok (go on) or Err (return it)
Await(at, next, op, data) ==
    /\ pc = at
    /\ \E ok \in BOOLEAN :
         /\ pc' = IF ok THEN next ELSE "error"
         /\ ops' = Append(ops, Op(op, data, ok))
    /\ UNCHANGED <<pureVars, mainVars, cellVars, x, notifs, audioVars, histVars>>

\* a lookup in what the device answered: found, or ok_or(..)? returns the error
Find(at, next) ==
    /\ pc = at
    /\ \E found \in BOOLEAN : pc' = IF found THEN next ELSE "error"
    /\ UNCHANGED <<pureVars, mainVars, cellVars, x, notifs, ops, audioVars, histVars>>

\* the same going on to the next step whether or not the entry was found
LookupUnchecked(at, next) ==
    /\ pc = at
    /\ \E found \in BOOLEAN :
         /\ pc' = next
         /\ lookup_failed' = ~found
    /\ UNCHANGED <<pureVars, mainVars, cellVars, x, notifs, ops, audioVars,
                   stale_notifs, stop_awaiting, last_frame, ended_upstream>>

\* a lookup among the discovered services and characteristics
Lookup(at, next) ==
    /\ pc = at
    /\ \E found \in BOOLEAN :
         /\ pc' = IF found THEN next ELSE "error"
         /\ lookup_failed' = ~found
    /\ UNCHANGED <<pureVars, mainVars, cellVars, x, notifs, ops, audioVars,
                   stale_notifs, stop_awaiting, last_frame, ended_upstream>>

ManagerNew == Await("manager_new", "adapters", "manager", <<>>)

\* adapters().await.expect(..) and adapters.get(0).expect(..)
Adapters ==
    /\ pc = "adapters"
    /\ \E r \in {"start_scan", "panic"} : pc' = r
    /\ UNCHANGED <<pureVars, mainVars, cellVars, x, notifs, ops, audioVars, histVars>>

StartScan == Await("start_scan", "events", "scan", <<>>)
Events == Await("events", "next_device", "events", <<>>)
NextDevice == Find("next_device", "peripheral")
GetPeripheral == Await("peripheral", "connect", "peripheral", <<>>)
Connect == Await("connect", "discover_services", "connect", <<>>)
DiscoverServices == Await("discover_services", "find_service", "discover", <<>>)
FindService == Lookup("find_service", "find_control")
FindControl == Lookup("find_control", "find_data")
FindData == Lookup("find_data", "subscribe")
Subscribe == Await("subscribe", "write_start", "subscribe", <<>>)
WriteStart ==
    Await("write_start", "notifications", "write", <<START_WEIGHT_MEASUREMENT, 0>>)
Notifications == Await("notifications", "next_notification", "notifications", <<>>)

\* the same with the session returning as soon as the stream ends
NextNotificationEndsSession ==
    /\ pc = "next_notification"
    /\ \E item \in (IF notifs < MaxNotifs THEN NotifBuffers ELSE {}) \cup {<<>>} :
         IF item = <<>>
         THEN /\ pc' = "done"
              /\ ended_upstream' = running
              /\ UNCHANGED <<x, notifs, stale_notifs>>
         ELSE /\ pc' = "check_running"
              /\ x' = item
              /\ notifs' = notifs + 1
              /\ stale_notifs' = IF running THEN stale_notifs ELSE stale_notifs + 1
              /\ UNCHANGED ended_upstream
    /\ UNCHANGED <<pureVars, mainVars, cellVars, ops, audioVars, stop_awaiting,
                   last_frame, lookup_failed>>

\* notifications.next().await: the next buffer, or None when the stream ends
NextNotification ==
    /\ pc = "next_notification"
    /\ \E item \in (IF notifs < MaxNotifs THEN NotifBuffers ELSE {}) \cup {<<>>} :
         IF item = <<>>
         THEN /\ pc' = "write_end"
              /\ ended_upstream' = running
              /\ UNCHANGED <<x, notifs, stale_notifs>>
         ELSE /\ pc' = "check_running"
              /\ x' = item
              /\ notifs' = notifs + 1
              /\ stale_notifs' = IF running THEN stale_notifs ELSE stale_notifs + 1
              /\ UNCHANGED ended_upstream
    /\ UNCHANGED <<pureVars, mainVars, cellVars, ops, audioVars, stop_awaiting,
                   last_frame, lookup_failed>>

\* the same without the running check
CheckRunningNoBreak ==
    /\ pc = "check_running"
    /\ LET r == parse_response(x) IN
         pc' = CASE r.tag = "panic" -> "panic"
                 [] r.tag = "WeightMeasurement" -> "lock_weight"
                 [] OTHER -> "next_notification"
    /\ x' = IF pc' \in {"lock_weight", "panic"} THEN x ELSE <<>>
    /\ UNCHANGED <<pureVars, mainVars, cellVars, notifs, ops, audioVars, histVars>>

\* if !(*running.lock().unwrap()) { break }, then match parse_response(x.value);
\* x lives until the end of the iteration, and only a weight has more to do
CheckRunning ==
    /\ pc = "check_running"
    /\ LET r == parse_response(x) IN
         pc' = CASE ~running -> "write_end"
                 [] r.tag = "panic" -> "panic"
                 [] r.tag = "WeightMeasurement" -> "lock_weight"
                 [] OTHER -> "next_notification"
    /\ x' = IF pc' \in {"lock_weight", "panic"} THEN x ELSE <<>>
    /\ UNCHANGED <<pureVars, mainVars, cellVars, notifs, ops, audioVars, histVars>>

\* the same without waiting for the mutex
LockWeightNoWait ==
    /\ pc = "lock_weight"
    /\ weight_lock' = "session"
    /\ pc' = "store_weight"
    /\ UNCHANGED <<pureVars, mainVars, cur_weight, x, notifs, ops, audioVars, histVars>>

\* cur_weight.lock(): waits while the audio callback holds the mutex
LockWeight ==
    /\ pc = "lock_weight"
    /\ weight_lock = "free"
    /\ weight_lock' = "session"
    /\ pc' = "store_weight"
    /\ UNCHANGED <<pureVars, mainVars, cur_weight, x, notifs, ops, audioVars, histVars>>

\* *guard = w, and the guard is dropped at the end of the statement
StoreWeight ==
    /\ pc = "store_weight"
    /\ cur_weight' = parse_response(x).value
    /\ weight_lock' = "free"
    /\ last_frame' = x
    /\ x' = <<>>
    /\ pc' = "next_notification"
    /\ UNCHANGED <<pureVars, mainVars, notifs, ops, audioVars, stale_notifs, stop_awaiting, lookup_failed, ended_upstream>>

\* the same sending the start opcode again
WriteEndStartOpcode ==
    Await("write_end", "disconnect", "write", <<START_WEIGHT_MEASUREMENT, 0>>)

WriteEnd == Await("write_end", "disconnect", "write", <<END_WEIGHT_MEASUREMENT, 0>>)
Disconnect == Await("disconnect", "done", "disconnect", <<>>)

----------------------------------------------------------------------------
\* audio.rs: create_stream and write_data

\* the closure's captured state as create_stream makes it (lines 26-31)
new_closure(rate) ==
    [sample_rate |-> rate, sample_clock |-> 0, phase |-> 0,
     phase_offset |-> 0, prev_freq |-> 0, captures |-> 0]

\* phase.sin(): the sample value, as the least of the (at most two) angles,
\* counted in half units, that have this sine (sin t = sin(pi - t))
sin(phase, rate) ==
    LET a == 2 * (phase % rate)
        b == (rate - a) % (2 * rate)
    IN  IF a <= b THEN a ELSE b

\* the frequencies the oscillator is modelled for
MaxFreq == 16384
\* the phase offsets a closure may have captured for its phase to be modelled
MaxCaptures == 5

\* The code computes the phase in radians and in f32:
\*   sample_clock * freq * 2.0 * PI / sample_rate + phase_offset
\* each operation erring by at most 2^-24 of its result. In exact arithmetic
\* this is the given whole number of units; its angle is that number modulo
\* the rate. For a frequency of magnitude at most MaxFreq the phase is below
\* 2^17 rad, where f32 values are 2^-7 rad apart at most, and the roundings
\* of one sample stay below two thousandths of a unit. The phase offset is
\* itself a rounded phase, so the roundings made before each capture stay in
\* the phases that follow and add up, capture after capture: after at most
\* MaxCaptures of them the f32 phase is still within a hundredth of a unit
\* of this angle. For a higher frequency the roundings grow to whole units
\* (from 2^24 rad on the f32 values are more than a radian apart), and after
\* many captures they drift away from the angle: in both cases no angle
\* computed from the count of units stands for the phase, and there is no
\* value.
f32_phase(units, freq, rate, captures) ==
    CASE freq \in (-MaxFreq)..MaxFreq /\ captures <= MaxCaptures -> units % rate

\* phase % (2.0 * PI): the f32 remainder has the sign of the phase and, the
\* phase being rounded, falls on either side of a whole cycle (0.0 or
\* 6.283179 rad for a phase of whole cycles); as an angle it is the phase's
rem_2pi(phase, rate) == phase % rate

\* the same with the counter wrapping one sample late
advance_clock_late_wrap(o) ==
    [o EXCEPT !.sample_clock = (o.sample_clock + 1) % (o.sample_rate + 1)]

\* sample_clock = (sample_clock + 1.0) % sample_rate
advance_clock(o) ==
    [o EXCEPT !.sample_clock = (o.sample_clock + 1) % o.sample_rate]

\* the same with the phase restarted at a frequency change
next_value_restart(o, weight) ==
    LET freq == weight_to_freq(weight)
        changed == freq # o.prev_freq
        clock == IF changed THEN 1 ELSE o.sample_clock
        offset == IF changed THEN 0 ELSE o.phase_offset
        captures == IF changed THEN o.captures + 1 ELSE o.captures
    IN  [sample_rate  |-> o.sample_rate,
         sample_clock |-> clock,
         phase        |-> f32_phase(clock * freq + offset, freq, o.sample_rate, captures),
         phase_offset |-> offset,
         prev_freq    |-> freq,
         captures     |-> captures]

\* the same with the frequency read once, when the stream starts
next_value_first_read(o, weight) ==
    LET freq == IF o.prev_freq # 0 THEN o.prev_freq ELSE weight_to_freq(weight)
        changed == freq # o.prev_freq
        clock == IF changed THEN 1 ELSE o.sample_clock
        offset == IF changed THEN rem_2pi(o.phase, o.sample_rate) ELSE o.phase_offset
        captures == IF changed THEN o.captures + 1 ELSE o.captures
    IN  [sample_rate  |-> o.sample_rate,
         sample_clock |-> clock,
         phase        |-> f32_phase(clock * freq + offset, freq, o.sample_rate, captures),
         phase_offset |-> offset,
         prev_freq    |-> freq,
         captures     |-> captures]

\* the rest of next_value, with the weight read under the lock:
\*   freq = weight_to_freq(weight)
\*   if freq != prev_freq { prev_freq = freq; sample_clock = 1;
\*                          phase_offset = phase % 2 pi }
\*   phase = sample_clock * freq * 2 pi / sample_rate + phase_offset
\* (freq is computed once, as in the code); captures counts the executions
\* of the last assignment of the if
next_value(o, weight) ==
    LET with(freq) ==
            LET changed == freq # o.prev_freq
                clock == IF changed THEN 1 ELSE o.sample_clock
                offset == IF changed THEN rem_2pi(o.phase, o.sample_rate)
                                     ELSE o.phase_offset
                captures == IF changed THEN o.captures + 1 ELSE o.captures
            IN  [sample_rate  |-> o.sample_rate,
                 sample_clock |-> clock,
                 phase        |-> f32_phase(clock * freq + offset, freq, o.sample_rate, captures),
                 phase_offset |-> offset,
                 prev_freq    |-> freq,
                 captures     |-> captures]
    IN  CHOOSE r \in {with(freq) : freq \in {weight_to_freq(weight)}} : TRUE

\* main.rs: create_stream, the closure main's stream runs: the clock has
\* advanced, and the sample is sin(sample_clock * freq * 2 pi / sample_rate).
\* The closure keeps sample_clock alone; phase and prev_freq record the phase
\* and the frequency of the sample, for comparison with the next one.
main_next_value(o, weight) ==
    LET with(freq) ==
            [sample_rate  |-> o.sample_rate,
             sample_clock |-> o.sample_clock,
             phase        |-> f32_phase(o.sample_clock * freq, freq, o.sample_rate, 0),
             phase_offset |-> 0,
             prev_freq    |-> freq,
             captures     |-> 0]
    IN  CHOOSE r \in {with(freq) : freq \in {weight_to_freq(weight)}} : TRUE

\* the backend asks for a buffer of whole frames
AudioCallback ==
    /\ apc = "idle"
    /\ Playing /\ ~Exited
    /\ \E n \in 1..MaxFrames : remaining' = n * channels
    /\ frame' = <<>>
    /\ apc' = "fill"
    /\ UNCHANGED <<pureVars, mainVars, cellVars, sessVars, osc, channels, variant, histVars>>

\* next_sample() is called for a sample of the chunk: the clock advances and
\* cur_weight.lock() is called, which parks the thread if the mutex is held
NextSampleLock ==
    /\ apc = "fill"
    /\ ~Exited
    /\ osc' = advance_clock(osc)
    /\ IF weight_lock = "free"
       THEN weight_lock' = "audio" /\ apc' = "locked"
       ELSE weight_lock' = weight_lock /\ apc' = "blocked"
    /\ UNCHANGED <<pureVars, mainVars, cur_weight, sessVars, channels, remaining, frame, variant, histVars>>

\* the mutex is released to the parked callback
NextSampleWake ==
    /\ apc = "blocked"
    /\ ~Exited
    /\ weight_lock = "free"
    /\ weight_lock' = "audio"
    /\ apc' = "locked"
    /\ UNCHANGED <<pureVars, mainVars, cur_weight, sessVars, osc, channels, remaining, frame, variant, histVars>>

\* the weight is read and the guard dropped, the sample computed and
\* written to the next place of the buffer
NextSampleWrite ==
    /\ apc = "locked"
    /\ ~Exited
    /\ osc' = IF variant = "main_rs" THEN main_next_value(osc, cur_weight)
                                      ELSE next_value(osc, cur_weight)
    /\ weight_lock' = "free"
    /\ frame' = (IF Len(frame) = channels THEN <<>> ELSE frame) \o <<sin(osc'.phase, osc'.sample_rate)>>
    /\ remaining' = remaining - 1
    /\ apc' = IF remaining' = 0 THEN "idle" ELSE "fill"
    /\ UNCHANGED <<pureVars, mainVars, cur_weight, sessVars, channels, variant, histVars>>

----------------------------------------------------------------------------
\* Specifications

InitCommon ==
    /\ decoded = Unset
    /\ mapped = <<>>
    /\ running = TRUE
    /\ stop_pc = "unspawned"
    /\ cur_weight = F_0
    /\ weight_lock = "free"
    /\ pc = "mk_stream"
    /\ x = <<>>
    /\ notifs = 0
    /\ ops = <<>>
    /\ apc = "idle"
    /\ remaining = 0
    /\ frame = <<>>
    /\ stale_notifs = 0
    /\ stop_awaiting = FALSE
    /\ last_frame = <<>>
    /\ lookup_failed = FALSE
    /\ ended_upstream = FALSE

\* the library's parts together: audio.rs's stream, progressor.rs's session
Init ==
    /\ InitCommon
    /\ osc = new_closure(SampleRate)
    /\ input = <<>>
    /\ channels \in 1..MaxChannels
    /\ variant = "audio_rs"

Next ==
    \/ MkStream \/ SpawnStop \/ Play \/ ReadLine
    \/ ManagerNew \/ Adapters \/ StartScan \/ Events \/ NextDevice
    \/ GetPeripheral \/ Connect \/ DiscoverServices
    \/ FindService \/ FindControl \/ FindData
    \/ Subscribe \/ WriteStart \/ Notifications
    \/ NextNotification \/ CheckRunning \/ LockWeight \/ StoreWeight
    \/ WriteEnd \/ Disconnect
    \/ AudioCallback \/ NextSampleLock \/ NextSampleWake \/ NextSampleWrite

Spec == Init /\ [][Next]_vars

\* Scheduling: the runtime polls the session's future whenever what it awaits
\* is ready, the device answers every request and its notification stream
\* yields an item or ends, and the audio thread runs on. A thread waiting for
\* the weight cell's mutex gets it once it is released often enough.
InitFair ==
    /\ InitCommon
    /\ osc = new_closure(SampleRate)
    /\ input = <<>>
    /\ channels = 1
    /\ variant = "audio_rs"

SpecFair ==
    /\ InitFair /\ [][Next]_vars
    /\ WF_vars(NextNotification)
    /\ WF_vars(CheckRunning)
    /\ SF_vars(LockWeight)
    /\ WF_vars(StoreWeight)
    /\ WF_vars(WriteEnd)
    /\ WF_vars(Disconnect)
    /\ WF_vars(NextSampleWrite)

\* the binary: main.rs's own create_stream and progressor_interaction (the
\* latter is line for line progressor.rs's interaction)
InitMain ==
    /\ InitCommon
    /\ osc = new_closure(SampleRate)
    /\ input = <<>>
    /\ channels \in 1..MaxChannels
    /\ variant = "main_rs"

SpecMain == InitMain /\ [][Next]_vars

InitPure ==
    /\ InitCommon
    /\ osc = new_closure(SampleRate)
    /\ input \in PureInputs
    /\ channels = 1
    /\ variant = "audio_rs"

NextPure == Decode \/ MapFreq

SpecPure == InitPure /\ [][NextPure]_vars

\* the generator of audio.rs in a session that has subscribed and awaits
\* notifications: a closure made by create_stream for any of the sample
\* rates, called by the playing stream while the device delivers weight
\* frames for any weight whose overtone the oscillator is modelled for
SampleRates == 2..(SampleRate + 1)
OscWeights == {w \in FloatDomain : weight_to_freq(w) \in (-MaxFreq)..MaxFreq}

\* the operations of interaction up to its receive loop, all of them Ok
SetUpOps ==
    <<Op("manager", <<>>, TRUE), Op("scan", <<>>, TRUE), Op("events", <<>>, TRUE),
      Op("peripheral", <<>>, TRUE), Op("connect", <<>>, TRUE),
      Op("discover", <<>>, TRUE), Op("subscribe", <<>>, TRUE),
      Op("write", <<START_WEIGHT_MEASUREMENT, 0>>, TRUE),
      Op("notifications", <<>>, TRUE)>>

InitOsc ==
    /\ decoded = Unset
    /\ mapped = <<>>
    /\ input = <<>>
    /\ running = TRUE
    /\ stop_pc = "reading"
    /\ cur_weight = F_0
    /\ weight_lock = "free"
    /\ pc = "next_notification"
    /\ x = <<>>
    /\ notifs = 0
    /\ ops = SetUpOps
    /\ \E rate \in SampleRates : osc = new_closure(rate)
    /\ apc = "idle"
    /\ channels = 1
    /\ remaining = 0
    /\ frame = <<>>
    /\ variant = "audio_rs"
    /\ stale_notifs = 0
    /\ stop_awaiting = FALSE
    /\ last_frame = <<>>
    /\ lookup_failed = FALSE
    /\ ended_upstream = FALSE

\* notifications.next().await yields a weight frame, for any of the weights
WeightNotification ==
    /\ pc = "next_notification"
    /\ notifs < MaxNotifs
    /\ \E w \in OscWeights : x' = WeightFrame(w)
    /\ pc' = "check_running"
    /\ notifs' = notifs + 1
    /\ UNCHANGED <<pureVars, mainVars, cellVars, ops, audioVars, histVars>>

NextOsc ==
    \/ WeightNotification \/ CheckRunning \/ LockWeight \/ StoreWeight
    \/ AudioCallback \/ NextSampleLock \/ NextSampleWake \/ NextSampleWrite

SpecOsc == InitOsc /\ [][NextOsc]_vars

----------------------------------------------------------------------------
\* Claims about the Frame Codec and the Frequency Mapper (under SpecPure)

\* the opcode's frame needs more bytes than the buffer has
TooShort(i) ==
    /\ Len(i) > 0
    /\ \/ i[1] = 0 /\ Len(i) < 6
       \/ i[1] = 1 /\ Len(i) < 10

\* C1: for every buffer of 0 to 9 bytes parse_response returns without a
\* panic, and it returns None when the first byte is not 0, 1 or 4 or when
\* the buffer is shorter than the opcode's payload needs.
C1_DecodeNeverFaults ==
    (decoded # Unset /\ Len(input) <= 9) =>
        /\ decoded # Panicked
        /\ (Len(input) > 0 /\ input[1] \notin {0, 1, 4}) => decoded = None
        /\ TooShort(input) => decoded = None

\* k is w with its fraction dropped: of w's sign, and |k| <= |w| < |k| + 1
IsTruncation(k, w) ==
    LET a == IF k < 0 THEN -k ELSE k
        M == 8388608 + w.mant
    IN  /\ k > 0 => w.sign = 0
        /\ k < 0 => w.sign = 1
        /\ IF w.exp < 127 THEN a = 0
           ELSE IF w.exp >= 150 THEN a = M * Pow2(w.exp - 150)
           ELSE /\ a * Pow2(150 - w.exp) <= M
                /\ M < (a + 1) * Pow2(150 - w.exp)

\* the integer parts considered when two weights are compared
MaxWhole == 128

\* C7: weight_to_freq(w) is 110 * (t + 1), as an f32, for t the truncation
\* of w toward zero (exactly that product while it fits 24 bits): 110 for
\* 0.0 and 0.999, 220 for 1.0, 330 for 2.5, 110 for every w strictly between
\* -1 and 0, and for non-negative weights non-decreasing in the integer part
\* of w.
C7_TruncatedOvertone ==
    mapped # <<>> =>
        LET w == decoded.value
            f == mapped[1]
            near == f \div BASE_FREQ
        IN  /\ \E k \in (near - 2)..near :
                 /\ IsTruncation(k, w)
                 /\ f = round_f32(BASE_FREQ * (k + 1))
                 /\ (-152520 <= k + 1 /\ k + 1 <= 152520) => f = BASE_FREQ * (k + 1)
                 /\ \A v \in FloatDomain : \A kv \in k..MaxWhole :
                      (w.sign = 0 /\ v.sign = 0 /\ IsTruncation(kv, v))
                          => f <= weight_to_freq(v)
                 /\ \A v \in FloatDomain :
                      LET nv == weight_to_freq(v) \div BASE_FREQ
                      IN  \A kv \in (nv - 2)..nv :
                            (w.sign = 0 /\ v.sign = 0 /\ k <= kv /\ IsTruncation(kv, v))
                                => f <= weight_to_freq(v)
            /\ w \in {F_0, F_0_999} => f = 110
            /\ w = F_1 => f = 220
            /\ w = F_2_5 => f = 330
            /\ (w.sign = 1 /\ w.exp < 127 /\ (w.exp # 0 \/ w.mant # 0)) => f = 110

\* a weight strictly between -1 and 0 has been mapped, to 110
C7_Witness ==
    /\ mapped = <<110>>
    /\ decoded.tag = "WeightMeasurement"
    /\ decoded.value = F_neg_0_5

\* C8: a buffer of at least 10 bytes whose first byte is 1 decodes to the
\* WeightMeasurement of the f32 at offsets 2..6 and the u32 at offsets 6..10,
\* both little-endian (what an encoder wrote there is what the decoder gives
\* back); byte 1 and the bytes from offset 10 on do not matter.
C8_WeightRoundTrip ==
    (decoded # Unset /\ Len(input) >= 10 /\ input[1] = 1) =>
        /\ decoded.tag = "WeightMeasurement"
        /\ f32_to_le_bytes(decoded.value) = Slice(input, 2, 6)
        /\ u32_to_le_bytes(decoded.counter) = Slice(input, 6, 10)
        /\ decoded.counter.hi \in 0..65535
        /\ decoded.counter.lo \in 0..65535
        /\ \A v \in FloatDomain, c \in CounterDomain :
             Slice(input, 2, 10) = f32_to_le_bytes(v) \o u32_to_le_bytes(c)
                 => decoded = WeightMeasurement(v, c)
        /\ \A r \in ReservedBytes :
             parse_response(<<1, r>> \o Slice(input, 2, 10)) = decoded

\* a weight frame with a reserved byte set, bytes past offset 10 and a
\* counter above 2^31 has been decoded
C8_Witness ==
    /\ Len(input) > 10
    /\ input[1] = 1
    /\ input[2] # 0
    /\ decoded = WeightMeasurement(F_3_9, U32(65535, 65535))

----------------------------------------------------------------------------
\* Claims about the audio engine (C2 under SpecOsc, the others under Spec)

\* this step is the one that computes a sample
SampleStep == apc = "locked" /\ apc' # "locked"

\* C2: when the frequency computed for a sample differs from the one used
\* for the previous sample, the sample counter is reset to 1 and the new
\* phase is the previous phase modulo one full cycle plus one step of the
\* new frequency (as angles); the phase does not restart from zero. This for
\* every sample rate and every sequence of weight frames received.
C2_PhaseContinuity ==
    [][osc'.prev_freq # osc.prev_freq =>
          /\ osc'.sample_clock = 1
          /\ osc'.phase_offset = osc.phase % osc.sample_rate
          /\ osc'.phase = (osc.phase + osc'.prev_freq) % osc.sample_rate
          /\ osc.phase # 0 => osc'.phase_offset # 0]_vars

\* at rate 4 a change to 220 Hz has carried a phase that was not a whole
\* number of cycles
C2_Witness ==
    /\ osc.sample_rate = 4
    /\ osc.sample_clock = 1
    /\ osc.phase_offset # 0
    /\ osc.prev_freq = 220
    /\ osc.phase = (220 + osc.phase_offset) % 4

\* C3: write_data gives every channel of a frame the same sample value: one
\* generated sample per frame.
C3_FrameReplicated ==
    \A k \in DOMAIN frame : frame[k] = frame[1]

\* C10: the audio callback is never waiting for the weight cell's mutex
\* while another task holds it.
C10_CallbackNeverBlocks ==
    ~(apc = "blocked" /\ weight_lock # "free")

----------------------------------------------------------------------------
\* Claims about the session and its shutdown (under Spec)

\* the receive loop is over
LoopExited == pc \in {"write_end", "disconnect", "done", "error"}

\* C4: when running is cleared while the session awaits a notification, the
\* loop exits after at most one more received notification (none is applied),
\* and the end-measurement command [0x66, 0x00] is then written exactly once.
C4_StopWhileAwaiting ==
    stop_awaiting =>
        /\ stale_notifs <= 1
        /\ stale_notifs = 1 => (pc = "check_running" \/ LoopExited)
        /\ pc \in {"next_notification", "check_running"} \/ LoopExited
        /\ Cardinality(Writes(END_WEIGHT_MEASUREMENT)) =
               IF pc \in {"disconnect", "done", "error"} THEN 1 ELSE 0

\* the stop came while awaiting, one more notification arrived, and the
\* session wrote the end command once and returned
C4_Witness ==
    /\ stop_awaiting
    /\ stale_notifs = 1
    /\ pc = "done"
    /\ Cardinality(Writes(END_WEIGHT_MEASUREMENT)) = 1
    /\ ops[Len(ops) - 1] = Op("write", <<102, 0>>, TRUE)

\* C5: a session that fails after the device was connected still attempts
\* the end-measurement write and a disconnect before it returns the error.
C5_TeardownOnError ==
    (pc = "error" /\ Connected) =>
        /\ Writes(END_WEIGHT_MEASUREMENT) # {}
        /\ Issued("disconnect") # {}

\* the f32 a weight frame carries, by the encoder
CarriedWeight(buf) ==
    CHOOSE v \in FloatDomain : f32_to_le_bytes(v) = SubSeq(buf, 3, 6)

\* C6: the frequency used for a sample is weight_to_freq of the value most
\* recently stored in the weight cell (0.0, so 110, before any store): after
\* the frames for 0.0, 1.2 and 3.9 the next sample targets 110, 220 and 440.
C6_LatestWeightHeard ==
    [][SampleStep =>
          /\ osc'.prev_freq =
                 weight_to_freq(IF last_frame = <<>> THEN F_0
                                ELSE CarriedWeight(last_frame))
          /\ last_frame \in {<<>>, WeightFrame(F_0)} => osc'.prev_freq = 110
          /\ last_frame = WeightFrame(F_1_2) => osc'.prev_freq = 220
          /\ last_frame = WeightFrame(F_3_9) => osc'.prev_freq = 440]_vars

\* three weight frames were received, the last for 3.9, and a sample was
\* then generated at 440
C6_Witness ==
    /\ notifs = 3
    /\ last_frame = WeightFrame(F_3_9)
    /\ osc.prev_freq = 440
    /\ osc.sample_clock = 2

\* C9: running starts true, only the stop task writes it, and it only ever
\* goes from true to false.
C9_RunningClearedOnce ==
    /\ running = TRUE
    /\ [][running' # running =>
            /\ running /\ ~running'
            /\ stop_pc = "reading" /\ stop_pc' = "done"]_vars

\* the flag was cleared and the session ran to its end with it cleared
C9_Witness ==
    /\ running = FALSE
    /\ stop_pc = "done"
    /\ pc = "done"

----------------------------------------------------------------------------
\* Claims about termination (under SpecFair)

\* the session is in its receive loop
Streaming == pc \in {"next_notification", "check_running", "lock_weight", "store_weight"}

\* the session wrote the end command, disconnected and returned Ok
TornDown ==
    /\ pc = "done"
    /\ Len(ops) >= 2
    /\ ops[Len(ops) - 1] = Op("write", <<END_WEIGHT_MEASUREMENT, 0>>, TRUE)
    /\ ops[Len(ops)] = Op("disconnect", <<>>, TRUE)

\* one of the wireless operations left to do failed, and the session returned it
TeardownFailed ==
    /\ pc = "error"
    /\ Len(ops) >= 1
    /\ ~ops[Len(ops)].ok
    /\ ops[Len(ops)].op \in {"write", "disconnect"}

----------------------------------------------------------------------------
\* Claims about the weight cell and the session's steps (under Spec)

\* the values the device's weight frames carry
FrameWeights ==
    {CarriedWeight(b) : b \in {n \in NotifBuffers : Len(n) >= 10 /\ n[1] = 1}}

\* C12: the session's store and the callback's read of the weight cell are
\* never in their critical sections together, each holds the mutex exactly
\* while in its section, and the cell holds 0.0 or a value a weight frame
\* carried, whole.
C12_CellExclusive ==
    /\ ~(pc = "store_weight" /\ apc = "locked")
    /\ (pc = "store_weight") <=> (weight_lock = "session")
    /\ (apc = "locked") <=> (weight_lock = "audio")
    /\ cur_weight \in {F_0} \cup FrameWeights

\* the session is inside its store of a new value while the callback wants
\* to read, and waits
C12_Witness ==
    /\ pc = "store_weight"
    /\ apc = "blocked"
    /\ cur_weight = F_1_2
    /\ x = WeightFrame(F_3_9)

\* what an issued operation is, a write told apart by its command
Kind(o) ==
    IF o.op # "write" THEN o.op
    ELSE IF o.data = <<101, 0>> THEN "write_start"
    ELSE IF o.data = <<102, 0>> THEN "write_end"
    ELSE "write_other"

StepOrder ==
    <<"scan", "connect", "discover", "subscribe", "write_start", "write_end", "disconnect">>

IsStep(o) == \E k \in DOMAIN StepOrder : Kind(o) = StepOrder[k] \/ Kind(o) = "write_other"

\* the steps issued so far, in the order they were issued
StepsIssued == SelectSeq(ops, IsStep)

\* C13: the wireless operations of a run are, in this order and each at most
\* once, scan, connect, discover services, subscribe, write [0x65, 0x00],
\* (notifications received), write [0x66, 0x00], disconnect: a later one is
\* issued only after the earlier ones succeeded, and notifications are
\* received only between the start write and the end write.
C13_LinearOrder ==
    /\ [](/\ Len(StepsIssued) <= Len(StepOrder)
          /\ \A k \in DOMAIN StepsIssued :
               /\ Kind(StepsIssued[k]) = StepOrder[k]
               /\ k < Len(StepsIssued) => StepsIssued[k].ok
          /\ Cardinality(Issued("subscribe")) <= 1
          /\ Writes(START_WEIGHT_MEASUREMENT) # {} =>
                 \E k \in Issued("subscribe") : ops[k].ok
          /\ Issued("disconnect") # {} =>
                 \E k \in Writes(END_WEIGHT_MEASUREMENT) :
                     ops[k].ok /\ \A d \in Issued("disconnect") : k < d)
    /\ [][notifs' # notifs =>
            /\ \E k \in Writes(START_WEIGHT_MEASUREMENT) : ops[k].ok
            /\ Writes(END_WEIGHT_MEASUREMENT) = {}]_vars

\* a whole run: every step issued once, two notifications received between
\* the two writes
C13_Witness ==
    /\ pc = "done"
    /\ notifs = 2
    /\ Len(StepsIssued) = 7
    /\ Len(ops) = 11

\* the buffer is a whole weight frame: opcode 1 and the 10 bytes it needs
IsWeightFrame(buf) == Len(buf) >= 10 /\ buf[1] = 1

\* C14: while streaming, a notification changes the weight cell only if it
\* is a weight measurement, and the cell then holds that frame's value; any
\* other notification (battery sample, low-power warning, nothing decodable)
\* leaves the cell as it was and ends neither the loop nor the session.
C14_OnlyWeightsChangeCell ==
    /\ [](x # <<>> /\ ~IsWeightFrame(x) =>
             pc \in {"check_running", "next_notification", "write_end"})
    /\ [][cur_weight' # cur_weight =>
            /\ IsWeightFrame(x)
            /\ f32_to_le_bytes(cur_weight') = SubSeq(x, 3, 6)]_vars
    /\ [][(pc = "check_running" /\ running /\ ~IsWeightFrame(x)) =>
            (pc' \in {"check_running", "next_notification"}
             /\ cur_weight' = cur_weight)]_vars

\* C15: in the stream main starts (the create_stream of main.rs), when the
\* frequency computed for a sample differs from the one of the previous
\* sample, the phase of the new sample is the previous sample's phase plus
\* one step of the new frequency, up to whole cycles: it does not jump.
C15_MainPhaseContinuity ==
    [][(SampleStep /\ variant = "main_rs" /\ osc'.prev_freq # osc.prev_freq) =>
          (osc'.phase - (osc.phase + osc'.prev_freq)) % SampleRate = 0]_vars

\* C16: when the service, the control characteristic or the data
\* characteristic is not found after discovery, the session ends with an
\* error; no subscription and no start-measurement write is issued in that
\* run, and the weight cell keeps its initial value.
C16_MissingEntryIsFatal ==
    lookup_failed =>
        /\ pc = "error"
        /\ Issued("subscribe") = {}
        /\ Writes(START_WEIGHT_MEASUREMENT) = {}
        /\ cur_weight = F_0
        /\ last_frame = <<>>

\* a lookup has failed on a connected device while the stream was playing
C16_Witness ==
    /\ lookup_failed
    /\ pc = "error"
    /\ Issued("discover") # {}
    /\ apc = "fill"

\* C17: when the notification stream ends while running is still true, the
\* loop is left and the session goes through the teardown of a requested
\* stop: the end-measurement command is written, once, and a disconnect
\* follows it; the session returns an error only if one of the two failed.
C17_StreamEndTearsDown ==
    ended_upstream =>
        /\ LoopExited
        /\ pc # "write_end" => Cardinality(Writes(END_WEIGHT_MEASUREMENT)) = 1
        /\ pc = "disconnect" =>
               ops[Len(ops)] = Op("write", <<END_WEIGHT_MEASUREMENT, 0>>, TRUE)
        /\ pc = "done" => TornDown
        /\ pc = "error" => TeardownFailed

\* the stream ended with no line read, and the session tore down and returned
C17_Witness ==
    /\ ended_upstream
    /\ running
    /\ stop_pc # "done"
    /\ TornDown

\* C18: in the generator of audio.rs, at every sample rate from 2 on, the
\* sample counter is within 0..sample_rate-1 after every sample, and while
\* the frequency is unchanged the phase advances by one step of that
\* frequency, up to whole cycles, at every sample, the one where the counter
\* wraps to 0 with a phase offset in place included; the offset is kept.
C18_ClockWrapKeepsPhase ==
    /\ [](osc.sample_clock \in 0..(osc.sample_rate - 1))
    /\ [][(SampleStep /\ osc'.prev_freq = osc.prev_freq) =>
            /\ osc'.phase = (osc.phase + osc.prev_freq) % osc.sample_rate
            /\ osc'.phase_offset = osc.phase_offset]_vars

\* at rate 3 the counter has wrapped to 0 at 220 Hz with a phase offset in
\* place: the sample's phase is the offset alone
C18_Witness ==
    /\ osc.sample_rate = 3
    /\ osc.sample_clock = 0
    /\ osc.prev_freq = 220
    /\ osc.phase_offset # 0
    /\ osc.phase = osc.phase_offset

\* C19: however the stop task and the receive loop interleave, a notification
\* received after running was cleared is never stored in the weight cell: the
\* store path is entered only by passing the check while running is true, so
\* a store that completes after the clearing is of a notification received
\* and checked before it; and once the loop is left the cell never changes.
C19_NoStaleStore ==
    /\ [](pc \in {"lock_weight", "store_weight"} => stale_notifs = 0)
    /\ [][(pc = "check_running" /\ ~running) =>
            pc' \in {"check_running", "write_end"}]_vars
    /\ [][(pc' = "lock_weight" /\ pc # "lock_weight") =>
            (pc = "check_running" /\ running /\ stale_notifs = 0)]_vars
    /\ [][cur_weight' # cur_weight =>
            (pc = "store_weight" /\ stale_notifs = 0)]_vars
    /\ [][LoopExited => cur_weight' = cur_weight]_vars

\* the line was read while a weight was being stored: the store completed,
\* the next notification came after the clearing and was dropped by the
\* check, and the cell still holds the stored frame's value
C19_Witness ==
    /\ pc = "write_end"
    /\ stop_pc = "done"
    /\ ~stop_awaiting
    /\ stale_notifs = 1
    /\ last_frame = WeightFrame(F_3_9)
    /\ cur_weight = F_3_9

====
